---- MODULE Spec2Model ----
(***************************************************************************)
(* Model of src/bayesian_regression.py: class BayesianRegression           *)
(* (__init__, _weights_posterior_params, _evidence_approx, fit, predict).  *)
(*                                                                         *)
(* Numbers.  numpy's float64 values are modelled as fixed-point numbers:   *)
(* the integer a stands for the real a / Scale, every product and quotient *)
(* is rounded to the nearest unit.  Vectors are sequences of numbers,      *)
(* matrices are sequences of rows.                                         *)
(***************************************************************************)
EXTENDS Integers, Sequences, FiniteSets, TLC

\* one unit of the fixed-point representation is 1 / Scale
Scale == 10 ^ 3

----------------------------------------------------------------------------
(* scalar arithmetic                                                       *)

Abs(a) == IF a < 0 THEN -a ELSE a

Sgn(a) == IF a < 0 THEN -1 ELSE 1

\* a * b on non-negative operands, rounded; a is split so that no
\* intermediate product leaves the machine integers
MulPos(a, b) == (a \div Scale) * b + ((a % Scale) * b + Scale \div 2) \div Scale

\* a * b
FMul(a, b) == Sgn(a) * Sgn(b) * MulPos(Abs(a), Abs(b))

\* a / b on a >= 0, b > 0, rounded (long division)
DivPos(a, b) == (a \div b) * Scale + ((a % b) * Scale + b \div 2) \div b

\* a / b, b # 0
FDiv(a, b) == Sgn(a) * Sgn(b) * DivPos(Abs(a), Abs(b))

\* the number standing for the integer k
Num(k) == k * Scale

\* sqrt(a), a >= 0: the integer square root of a * Scale, by Newton's iteration
RECURSIVE Newton(_, _)
Newton(n, x) == LET y == (x + n \div x) \div 2 IN IF y >= x THEN x ELSE Newton(n, y)

Sqrt(a) == IF a = 0 THEN 0 ELSE Newton(a * Scale, a * Scale)

\* ln 2
Ln2 == (693 * Scale) \div 1000

\* ln(y) for 1 <= y < 2: 2 * atanh((y - 1) / (y + 1)), three terms of the series
LnMantissa(y) ==
    LET z  == FDiv(y - Scale, y + Scale)
        z2 == FMul(z, z)
        z3 == FMul(z2, z)
        z5 == FMul(z3, z2)
    IN  2 * (z + (z3 + 1) \div 3 + (z5 + 2) \div 5)

\* np.log(a) for a > 0: a is brought into [1, 2) by halving or doubling
RECURSIVE Log(_)
Log(a) == IF a >= 2 * Scale THEN Ln2 + Log((a + 1) \div 2)
          ELSE IF a < Scale THEN Log(2 * a) - Ln2
          ELSE LnMantissa(a)

----------------------------------------------------------------------------
(* vectors and matrices                                                    *)

RECURSIVE SumTo(_, _)
SumTo(f, k) == IF k = 0 THEN 0 ELSE f[k] + SumTo(f, k - 1)

\* np.sum of a vector
Sum(f) == SumTo(f, Len(f))

\* np.dot of two vectors
Dot(a, b) == Sum([i \in 1..Len(a) |-> FMul(a[i], b[i])])

\* column j of a matrix
Col(M, j) == [i \in 1..Len(M) |-> M[i][j]]

\* M.T
Transpose(M) == [j \in 1..Len(M[1]) |-> Col(M, j)]

\* np.dot of a matrix and a vector
MatVec(M, x) == [i \in 1..Len(M) |-> Dot(M[i], x)]

\* np.dot of two matrices
MatMul(A, B) == [i \in 1..Len(A) |-> [j \in 1..Len(B[1]) |-> Dot(A[i], Col(B, j))]]

\* np.diag of a vector
Diag(x) == [i \in 1..Len(x) |-> [j \in 1..Len(x) |-> IF i = j THEN x[i] ELSE 0]]

\* a matrix plus a scalar: numpy broadcasts the scalar to every entry
MatAddScalar(M, c) == [i \in 1..Len(M) |-> [j \in 1..Len(M[i]) |-> M[i][j] + c]]

\* a vector plus a scalar
VecAddScalar(x, c) == [i \in 1..Len(x) |-> x[i] + c]

----------------------------------------------------------------------------
(* np.linalg.svd(X, full_matrices = False) for an n x m matrix, n >= m,    *)
(* m <= 2, of full column rank: X = u . diag(d) . v, d descending.         *)
(* m = 1: d = |X|, v = [[1]].  m = 2: the eigen-decomposition of X.T X.    *)

svd1(X) ==
    LET c  == Col(X, 1)
        d1 == Sqrt(Dot(c, c))
    IN  [u |-> [i \in 1..Len(X) |-> <<FDiv(c[i], d1)>>], d |-> <<d1>>, v |-> <<<<Scale>>>>]

svd2(X) ==
    LET a   == Dot(Col(X, 1), Col(X, 1))
        b   == Dot(Col(X, 1), Col(X, 2))
        c   == Dot(Col(X, 2), Col(X, 2))
        h   == Sgn(a - c) * (Abs(a - c) \div 2)
        r   == Sqrt(FMul(h, h) + FMul(b, b))
        mid == (a + c) \div 2
        l1  == mid + r
        l2  == IF mid - r < 0 THEN 0 ELSE mid - r
        w   == <<b, l1 - a>>
        nw  == Sqrt(Dot(w, w))
        v1  == IF b = 0 THEN (IF a >= c THEN <<Scale, 0>> ELSE <<0, Scale>>)
               ELSE <<FDiv(w[1], nw), FDiv(w[2], nw)>>
        v   == <<v1, <<-v1[2], v1[1]>> >>
        d   == <<Sqrt(l1), Sqrt(l2)>>
    IN  [u |-> [i \in 1..Len(X) |-> [k \in 1..2 |-> FDiv(Dot(X[i], v[k]), d[k])]],
         d |-> d, v |-> v]

svd(X) == IF Len(X[1]) = 1 THEN svd1(X) ELSE svd2(X)

----------------------------------------------------------------------------
(* more array arithmetic                                                   *)

\* a - b on vectors
VecSub(a, b) == [i \in 1..Len(a) |-> a[i] - b[i]]

\* c * M for a scalar c
ScalarMat(c, M) == [i \in 1..Len(M) |-> [j \in 1..Len(M[i]) |-> FMul(c, M[i][j])]]

\* d ** 2, elementwise
Square(d) == [i \in 1..Len(d) |-> FMul(d[i], d[i])]

\* np.mean over the n entries of a vector
Mean(f) == (2 * Sum(f) + Len(f)) \div (2 * Len(f))

----------------------------------------------------------------------------
(* class BayesianRegression                                                *)

VARIABLES
    self,                    \* the instance: a record of its attributes
    module_Y,                \* the module-level name Y of the interpreter
    true_division,           \* whether int / int is true division (Python 3)
    pc,                      \* position of the running call, "ready" if none
    evidence_approx_method,  \* fit's argument, method in _evidence_approx
    max_iter,                \* fit's argument
    draw,                    \* what np.random.random(2) returned to the call
    x,                       \* predict's argument
    i, alpha, beta, log_likes, mu, error, sqdErr,   \* locals of _evidence_approx
    ret,                     \* how the last call ended
    last_fit                 \* history: the last fit that stored a posterior

vars == <<self, module_Y, true_division, pc, evidence_approx_method, max_iter,
          draw, x, i, alpha, beta, log_likes, mu, error, sqdErr, ret, last_fit>>

frame == <<evidence_approx_method, max_iter, draw, x, i, alpha, beta, log_likes,
           mu, error, sqdErr>>

env == <<module_Y, true_division>>

\* an unbound array-valued local; also stands for the Python int 0 that
\* __init__ stores in w_mu
Unbound == <<>>

\* optional attributes: present only once assigned
has(slf, name) == name \in slf.attrs

\* __init__(self, X, Y, bias_term, thresh)
init(X, Y, bias_term, thresh) ==
    LET mu_X == [j \in 1..Len(X[1]) |-> Mean(Col(X, j))]
        Xc   == [r \in 1..Len(X) |-> VecSub(X[r], mu_X)]
        mu_Y == Mean(Y)
        Yc   == VecAddScalar(Y, -mu_Y)
        usv  == svd(Xc)
    IN  [mu_X |-> mu_X, X |-> Xc, mu_Y |-> mu_Y, Y |-> Yc, thresh |-> thresh,
         attrs |-> IF bias_term = TRUE THEN {"bias_term"} ELSE {},
         bias_term |-> IF bias_term = TRUE THEN mu_Y ELSE 0,
         u |-> usv.u, d |-> usv.d, v |-> usv.v,
         alpha |-> 0, beta |-> 0,
         w_mu |-> Unbound, w_precison |-> 0,
         w_precision |-> Unbound, diag |-> Unbound]

\* a slip of line 78: the assignment goes to self.d
set_d(slf, value) == [slf EXCEPT !.d = value]

\* self.diag = ...  (line 78)
set_diag(slf, value) == [slf EXCEPT !.diag = value, !.attrs = @ \cup {"diag"}]

\* _weights_posterior_params(self, alpha, beta): the returned pair and the
\* instance after the call
weights_posterior_params(slf, a, b) ==
    LET precision == MatAddScalar(ScalarMat(b, MatMul(Transpose(slf.X), slf.X)), a)
        dg        == [k \in 1..Len(slf.d) |->
                         FDiv(slf.d[k], FMul(slf.d[k], slf.d[k]) + FDiv(a, b))]
        p1        == MatMul(Transpose(slf.v), Diag(dg))
        p2        == MatVec(Transpose(slf.u), slf.Y)
        w_mu      == MatVec(p1, p2)
    IN  [w_mu |-> w_mu, precision |-> precision, self |-> set_diag(slf, dg)]

\* a slip of line 107: a fitted instance starts from its stored hyperparameters
warm_start(slf, rnd) == IF slf.beta # 0 THEN <<slf.alpha, slf.beta>> ELSE rnd

\* alpha, beta = np.random.random(2)  (line 107)
initial_alpha_beta(slf, rnd) == rnd

\* lines 117-119: the posterior mean of an iteration, from the name Y
e_step_mu(slf, a, b, dsq, Y) ==
    LET p1_mu == MatMul(Transpose(slf.v),
                        Diag([k \in 1..Len(slf.d) |-> FDiv(slf.d[k], dsq[k] + FDiv(a, b))]))
        p2_mu == MatVec(Transpose(slf.u), Y)
    IN  MatVec(p1_mu, p2_mu)

\* lines 128-132
fixed_point_update(n, dsq, a, b, m_u, sqd) ==
    LET gamma  == Sum([k \in 1..Len(dsq) |->
                         FDiv(FMul(b, dsq[k]), FMul(b, dsq[k]) + a)])
        alpha1 == FDiv(gamma, Dot(m_u, m_u))
        beta1  == FDiv(Num(n) - gamma, sqd)
    IN  [alpha |-> alpha1, beta |-> beta1]

\* lines 137-138: beta is computed after alpha has been assigned
em_update(m, n, dsq, a, b, m_u, sqd) ==
    LET alpha1 == FDiv(Num(m), Dot(m_u, m_u)
                       + Sum([k \in 1..Len(dsq) |-> FDiv(Scale, FMul(b, dsq[k]) + a)]))
        beta1  == FDiv(Num(n), sqd
                       + Sum([k \in 1..Len(dsq) |-> FDiv(dsq[k], FMul(b, dsq[k]) + alpha1)]))
    IN  [alpha |-> alpha1, beta |-> beta1]

\* k / 2 for Python ints k: true division, or floor division in Python 2
HalfOf(k, truediv) == IF truediv THEN Num(k) \div 2 ELSE Num(k \div 2)

\* lines 145-146
log_likelihood(m, n, dsq, a, b, m_u, sqd, truediv) ==
    LET normaliser == FMul(HalfOf(m, truediv), Log(a)) + FMul(HalfOf(n, truediv), Log(b))
                      - FMul(HalfOf(1, truediv),
                             Sum([k \in 1..Len(dsq) |-> Log(FMul(b, dsq[k]) + a)]))
    IN  normaliser - FMul(FDiv(a, Num(2)), Dot(m_u, m_u)) - FMul(FDiv(b, Num(2)), sqd)

\* lines 150-152: whether the loop breaks after iteration index k
stops(k, lls, thresh) == k >= 1 /\ lls[Len(lls)] - lls[Len(lls) - 1] < thresh

\* lines 216-220: the locals of predict
predict_locals(slf, xq) ==
    LET xc       == [r \in 1..Len(xq) |-> VecSub(xq[r], slf.mu_X)]
        mu_pred  == VecAddScalar(MatVec(xc, slf.w_mu), slf.mu_Y)
        dv       == [k \in 1..Len(slf.d) |->
                        FDiv(Scale, FMul(slf.beta, FMul(slf.d[k], slf.d[k])) + slf.alpha)]
        D        == MatMul(MatMul(Transpose(slf.v), Diag(dv)), slf.v)
        var_pred == MatAddScalar(MatMul(MatMul(xc, D), Transpose(xc)),
                                 FDiv(Scale, slf.beta))
    IN  [x |-> xc, mu_pred |-> mu_pred, d |-> dv, D |-> D, var_pred |-> var_pred]

\* a slip of line 218: the local d is assigned to self.d
predict_assigning_self_d(slf, xq) ==
    IF slf.beta = 0
    THEN [self |-> slf, outcome |-> "ZeroDivisionError", value |-> <<>>]
    ELSE LET loc == predict_locals(slf, xq)
         IN  [self |-> [slf EXCEPT !.d = loc.d], outcome |-> "return",
              value |-> <<loc.mu_pred, loc.var_pred>>]

\* predict(self, x): how the call ends and the instance after it.  With
\* beta the int 0 that __init__ stored, 1/self.beta raises.
predict(slf, xq) ==
    IF slf.beta = 0
    THEN [self |-> slf, outcome |-> "ZeroDivisionError", value |-> <<>>]
    ELSE LET loc == predict_locals(slf, xq)
         IN  [self |-> slf, outcome |-> "return", value |-> <<loc.mu_pred, loc.var_pred>>]

----------------------------------------------------------------------------
(* inputs                                                                  *)

\* largest max_iter passed to fit
MaxIter == 3

\* a matrix or vector of integers as numbers
NumVec(f) == [k \in 1..Len(f) |-> Num(f[k])]
NumMat(M) == [r \in 1..Len(M) |-> NumVec(M[r])]

\* training sets (X, Y): one feature, and two features
Datasets ==
    { [X |-> NumMat(<< <<0>>, <<1>>, <<2>>, <<3>> >>), Y |-> NumVec(<<1, 2, 4, 5>>)],
      [X |-> NumMat(<< <<0, 1>>, <<1, 0>>, <<2, 2>>, <<3, 0>> >>), Y |-> NumVec(<<1, 3, 4, 8>>)] }

\* convergence thresholds
Thresholds == {1, (3 * Scale) \div 10}

\* values of np.random.random(2): pairs in [0, 1)
Draws == { <<Scale \div 4, (3 * Scale) \div 4>>, <<(9 * Scale) \div 10, Scale \div 10>> }

Methods == {"EM", "fixed-point", "gibbs"}

\* query matrices x for predict, by the number m of features
Queries(m) ==
    IF m = 1 THEN { NumMat(<< <<0>>, <<1>> >>), NumMat(<< <<4>> >>) }
    ELSE { NumMat(<< <<0, 1>>, <<1, 0>> >>), NumMat(<< <<4, 1>> >>) }

Reverse(f) == [k \in 1..Len(f) |-> f[Len(f) + 1 - k]]

\* the module-level name Y: unbound when the class is imported, the training
\* responses when the file runs as a script, or some other vector of a caller
ModuleYs(Y) == { [bound |-> FALSE, value |-> Unbound],
                 [bound |-> TRUE, value |-> Y],
                 [bound |-> TRUE, value |-> Reverse(Y)] }

NoCall == [op |-> "none", outcome |-> "none", value |-> <<>>]

NoFit == [stored |-> FALSE, key |-> <<>>, out |-> <<>>, again |-> FALSE]

\* the frame of a call that has not bound its locals
ClearFrame ==
    /\ i' = 0 /\ alpha' = 0 /\ beta' = 0 /\ log_likes' = <<>>
    /\ mu' = Unbound /\ error' = Unbound /\ sqdErr' = 0

----------------------------------------------------------------------------
(* the state after construction, and the calls                             *)

Init ==
    \E data \in Datasets, bias_term \in BOOLEAN, thresh \in Thresholds :
        /\ self = init(data.X, data.Y, bias_term, thresh)
        /\ module_Y \in ModuleYs(data.Y)
        /\ true_division \in BOOLEAN
        /\ pc = "ready"
        /\ evidence_approx_method = "" /\ max_iter = 0 /\ draw = <<>> /\ x = <<>>
        /\ i = 0 /\ alpha = 0 /\ beta = 0 /\ log_likes = <<>>
        /\ mu = Unbound /\ error = Unbound /\ sqdErr = 0
        /\ ret = NoCall
        /\ last_fit = NoFit

n_obs == Len(self.X)
m_par == Len(self.X[1])
dsq   == Square(self.d)

\* fit(evidence_approx_method, max_iter) is called: lines 182, 185, 104-111
Fit(method, iters, rnd) ==
    /\ pc = "ready"
    /\ evidence_approx_method' = method
    /\ max_iter' = iters
    /\ draw' = rnd
    /\ x' = <<>>
    /\ alpha' = initial_alpha_beta(self, rnd)[1]
    /\ beta' = initial_alpha_beta(self, rnd)[2]
    /\ i' = 0 /\ log_likes' = <<>> /\ mu' = Unbound /\ error' = Unbound /\ sqdErr' = 0
    /\ ret' = NoCall
    /\ pc' = "for"
    /\ UNCHANGED <<self, env, last_fit>>

\* lines 114-123: the next iteration starts; reading the name Y raises
\* NameError when the module binds none
EStep ==
    /\ pc = "for"
    /\ i < max_iter
    /\ IF module_Y.bound
       THEN LET m_u == e_step_mu(self, alpha, beta, dsq, module_Y.value)
                err == VecSub(self.Y, MatVec(self.X, m_u))
            IN  /\ mu' = m_u
                /\ error' = err
                /\ sqdErr' = Dot(err, err)
                /\ pc' = "update"
                /\ ret' = ret
       ELSE /\ pc' = "ready"
            /\ ret' = [op |-> "fit", outcome |-> "NameError", value |-> <<>>]
            /\ UNCHANGED <<mu, error, sqdErr>>
    /\ UNCHANGED <<self, env, evidence_approx_method, max_iter, draw, x, i, alpha,
                   beta, log_likes, last_fit>>

\* lines 125-141: the update of the chosen method, or ValueError
MStep ==
    /\ pc = "update"
    /\ IF evidence_approx_method = "fixed-point"
       THEN LET new == fixed_point_update(n_obs, dsq, alpha, beta, mu, sqdErr)
            IN  alpha' = new.alpha /\ beta' = new.beta /\ pc' = "log_like" /\ ret' = ret
       ELSE IF evidence_approx_method = "EM"
       THEN LET new == em_update(m_par, n_obs, dsq, alpha, beta, mu, sqdErr)
            IN  alpha' = new.alpha /\ beta' = new.beta /\ pc' = "log_like" /\ ret' = ret
       ELSE /\ pc' = "ready"
            /\ ret' = [op |-> "fit", outcome |-> "ValueError", value |-> <<>>]
            /\ UNCHANGED <<alpha, beta>>
    /\ UNCHANGED <<self, env, evidence_approx_method, max_iter, draw, x, i,
                   log_likes, mu, error, sqdErr, last_fit>>

\* lines 145-152: the log-likelihood is appended; the loop breaks or goes on
LStep ==
    /\ pc = "log_like"
    /\ LET lls == Append(log_likes, log_likelihood(m_par, n_obs, dsq, alpha, beta, mu,
                                                   sqdErr, true_division))
       IN  /\ log_likes' = lls
           /\ IF stops(i, lls, self.thresh)
              THEN pc' = "write" /\ i' = i
              ELSE pc' = "for" /\ i' = i + 1
    /\ UNCHANGED <<self, env, evidence_approx_method, max_iter, draw, x, alpha, beta,
                   mu, error, sqdErr, ret, last_fit>>

\* line 114: range(max_iter) is exhausted
LoopExhausted ==
    /\ pc = "for"
    /\ i >= max_iter
    /\ pc' = "write"
    /\ UNCHANGED <<self, env, frame, ret, last_fit>>

\* lines 155-156
Write ==
    /\ pc = "write"
    /\ self' = [self EXCEPT !.alpha = alpha, !.beta = beta]
    /\ pc' = "posterior"
    /\ UNCHANGED <<env, frame, ret, last_fit>>

\* line 188, with the assignment to self.diag in the callee
Posterior ==
    /\ pc = "posterior"
    /\ LET post == weights_posterior_params(self, self.alpha, self.beta)
       IN  /\ self' = [post.self EXCEPT !.w_mu = post.w_mu,
                                        !.w_precision = post.precision,
                                        !.attrs = @ \cup {"w_precision"}]
           /\ last_fit' = [stored |-> TRUE,
                           key |-> <<evidence_approx_method, max_iter, draw>>,
                           out |-> <<self.alpha, self.beta, post.w_mu, post.precision>>,
                           again |-> last_fit.stored /\ last_fit.key =
                                       <<evidence_approx_method, max_iter, draw>>]
    /\ pc' = "result"
    /\ UNCHANGED <<env, frame, ret>>

\* lines 190-194: reading self.bias_term raises AttributeError when __init__
\* did not assign it
Result ==
    /\ pc = "result"
    /\ ret' = IF ~has(self, "bias_term")
              THEN [op |-> "fit", outcome |-> "AttributeError", value |-> <<>>]
              ELSE [op |-> "fit", outcome |-> "return",
                    value |-> [bias_term |-> self.mu_Y, weights |-> self.w_mu,
                               precision |-> self.w_precision]]
    /\ pc' = "ready"
    /\ UNCHANGED <<self, env, frame, last_fit>>

\* predict(x): lines 216-221
Predict(xq) ==
    /\ pc = "ready"
    /\ LET call == predict(self, xq)
       IN  /\ self' = call.self
           /\ ret' = [op |-> "predict", outcome |-> call.outcome, value |-> call.value]
    /\ x' = xq
    /\ evidence_approx_method' = "" /\ max_iter' = 0 /\ draw' = <<>>
    /\ ClearFrame
    /\ UNCHANGED <<pc, env, last_fit>>

Next ==
    \/ \E method \in Methods, iters \in 0..MaxIter, rnd \in Draws : Fit(method, iters, rnd)
    \/ EStep
    \/ MStep
    \/ LStep
    \/ LoopExhausted
    \/ Write
    \/ Posterior
    \/ Result
    \/ \E xq \in Queries(m_par) : Predict(xq)

Spec == Init /\ [][Next]_vars

----------------------------------------------------------------------------
(* the claims                                                              *)

ValidMethods == {"EM", "fixed-point"}

\* a fit call has ended, by return or by an exception
FitOver == pc = "ready" /\ ret.op = "fit"

\* C1: fit with a method other than "EM" and "fixed-point" fails with the
\* invalid-parameter error for every max_iter, before any posterior mean or
\* residual has been computed.  (Stated for an interpreter whose module binds
\* Y, where no other error comes first.)
C1_InvalidMethodFailsBeforeAnyWork ==
    (FitOver /\ evidence_approx_method \notin ValidMethods /\ module_Y.bound)
        => (ret.outcome = "ValueError" /\ mu = Unbound /\ error = Unbound)

\* C2: predict on an instance on which no fit has stored anything fails with
\* a dedicated not-fitted error, never with another error.
C2_PredictBeforeFitIsNotFitted ==
    (pc = "ready" /\ ret.op = "predict" /\ ~last_fit.stored)
        => ret.outcome = "NotFittedError"

\* C3: fit with a valid method returns; the result holds weights and
\* precision, and bias_term (the training response mean) exactly when the
\* instance was constructed with bias_term true.  (Stated for an interpreter
\* whose module binds Y.)
C3_FitReturnsWithOrWithoutBias ==
    (FitOver /\ evidence_approx_method \in ValidMethods /\ module_Y.bound)
        => /\ ret.outcome = "return"
           /\ IF has(self, "bias_term")
              THEN /\ DOMAIN ret.value = {"bias_term", "weights", "precision"}
                   /\ ret.value.bias_term = self.mu_Y
              ELSE DOMAIN ret.value = {"weights", "precision"}

\* C4: the posterior precision stored by fit is beta * X.T X + alpha * I:
\* alpha on the diagonal only, and the matrix is symmetric.
C4_PrecisionAddsAlphaOnDiagonal ==
    pc = "result" =>
        LET XtX == MatMul(Transpose(self.X), self.X)
        IN  \A r \in 1..m_par, c \in 1..m_par :
                /\ self.w_precision[r][c] =
                       FMul(self.beta, XtX[r][c]) + (IF r = c THEN self.alpha ELSE 0)
                /\ self.w_precision[r][c] = self.w_precision[c][r]

\* C5: predict leaves every attribute of the instance as it was, and two
\* predict calls in a row with the same x end the same way.
C5_PredictMutatesNothing ==
    [][ (pc = "ready" /\ pc' = "ready")
            => /\ self' = self
               /\ (ret.op = "predict" /\ x' = x) => ret' = ret ]_vars

C5_Witness ==
    /\ pc = "ready" /\ ret.op = "predict" /\ ret.outcome = "return"
    /\ last_fit.stored

\* C6: a fit with the method, max_iter and random draw of the last fit that
\* stored a posterior stores the same (alpha, beta, w_mu, w_precision),
\* whatever fit and predict calls came in between.
C6_RefitSameOutcome ==
    [][ (pc = "posterior" /\ last_fit.stored
            /\ last_fit.key = <<evidence_approx_method, max_iter, draw>>)
            => <<self'.alpha, self'.beta, self'.w_mu, self'.w_precision>> = last_fit.out
      ]_vars

C6_Witness ==
    /\ pc = "result" /\ last_fit.again /\ max_iter >= 2

Min(S) == CHOOSE k \in S : \A l \in S : k <= l

\* the iteration count C7 states, from the log-likelihoods computed
ClaimedIterations(iters, lls, thresh) ==
    LET ks == {k \in 2..Len(lls) : lls[k] - lls[k - 1] < thresh}
    IN  IF iters < 2 THEN iters ELSE IF ks # {} THEN Min(ks) ELSE iters

\* C7: with a valid method the loop ends after max_iter iterations when
\* max_iter < 2, else after the first iteration k >= 2 whose log-likelihood
\* gain is below thresh (max_iter if there is none), and the last computed
\* alpha and beta are stored in the instance.
C7_IterationCount ==
    (FitOver /\ evidence_approx_method \in ValidMethods)
        => /\ Len(log_likes) = ClaimedIterations(max_iter, log_likes, self.thresh)
           /\ self.alpha = alpha /\ self.beta = beta

\* The stopping rule of C7 where the module binds Y: what lines 114-156 do
\* once the E-step can read Y.
StoppingRuleWhenYBound ==
    (pc \in {"posterior", "result", "ready"} /\ evidence_approx_method \in ValidMethods
        /\ module_Y.bound)
        => /\ Len(log_likes) = ClaimedIterations(max_iter, log_likes, self.thresh)
           /\ self.alpha = alpha /\ self.beta = beta

\* the EM update with both sums over the hyperparameters the iteration began with
em_snapshot(m, n, q, a, b, m_u, sqd) ==
    [alpha |-> FDiv(Num(m), Dot(m_u, m_u)
                    + Sum([k \in 1..Len(q) |-> FDiv(Scale, FMul(b, q[k]) + a)])),
     beta  |-> FDiv(Num(n), sqd
                    + Sum([k \in 1..Len(q) |-> FDiv(q[k], FMul(b, q[k]) + a)]))]

\* C8: an EM iteration computes the new alpha and the new beta from the
\* alpha and beta it began with.
C8_EMUsesOneSnapshot ==
    [][ (pc = "update" /\ evidence_approx_method = "EM")
            => LET snap == em_snapshot(m_par, n_obs, dsq, alpha, beta, mu, sqdErr)
               IN  alpha' = snap.alpha /\ beta' = snap.beta ]_vars

\* C9: once an iteration has computed its posterior mean at (alpha, beta),
\* that mean is the one _weights_posterior_params gives at (alpha, beta),
\* whatever the module-level name Y is bound to, if to anything.
C9_SameMeanInLoopAndPosterior ==
    (pc = "update" \/ (FitOver /\ ret.outcome = "NameError"))
        => mu = weights_posterior_params(self, alpha, beta).w_mu

\* what __init__ computes once: centering offsets, centered data, SVD
constructed(slf) == <<slf.mu_X, slf.X, slf.mu_Y, slf.Y, slf.u, slf.d, slf.v>>

\* C10: no step of fit or predict, failing or not, changes the centering
\* offsets, the centered X and Y or the SVD factors.
C10_ConstructedDataNeverWritten ==
    [][ constructed(self') = constructed(self) ]_vars

C10_Witness ==
    /\ FitOver /\ ret.outcome = "ValueError"
    /\ last_fit.stored /\ has(self, "diag")

====
